---- MODULE Spec2Model ----
(***************************************************************************)
(* Model of the bracket (OCO) coordinator of harinath_binance_bot:         *)
(* src/src/advanced/oco.py, with the helpers of src/src/utils.py and the   *)
(* gateway of src/src/client_wrapper.py.  One run of place_oco is one      *)
(* behaviour of Spec; the exchange and the wall clock move between the     *)
(* gateway calls of the run.  The stop orders (StopSpec), the TWAP         *)
(* (TwapSpec), the command line (CliSpec) and the rounding helpers         *)
(* (RoundSpec) have specifications of their own over the same variables.   *)
(***************************************************************************)
EXTENDS Integers, Sequences, FiniteSets, TLC

(***************************************************************************)
(* Bounds of the model.                                                    *)
(***************************************************************************)
\* largest wait_timeout (seconds) a request is drawn with
MaxTimeout == 1

(***************************************************************************)
(* Decimal numbers.  A python Decimal is a coefficient c and a number of   *)
(* decimal places d (its exponent is -d): the value is c / 10^d.           *)
(* "0.20" is [c |-> 20, d |-> 2].                                          *)
(***************************************************************************)
Dec(c, d) == [c |-> c, d |-> d]

\* values that are no number, in the shape of a decimal so that they can stand
\* where a number is expected
Absent     == Dec(0, -1)    \* a key missing from a JSON object / python None
NotANumber == Dec(0, -2)    \* a text float() cannot parse, such as "abc"
ValueError == Dec(0, -3)    \* the ValueError a validator raises

IsDec(x) == x.d >= 0

\* integer division rounding toward zero (Decimal // and ROUND_DOWN)
TruncDiv(a, b) == IF a >= 0 THEN a \div b ELSE -((-a) \div b)

\* comparison of two decimals by value
DecLt(x, y) == x.c * 10^(y.d) < y.c * 10^(x.d)
DecLe(x, y) == x.c * 10^(y.d) <= y.c * 10^(x.d)

\* float(x): a float keeps the value and forgets the trailing zeros
RECURSIVE Float(_)
Float(x) ==
    IF x.d > 0 /\ x.c % 10 = 0 THEN Float(Dec(x.c \div 10, x.d - 1)) ELSE x

\* Decimal(str(f)) of a float f: str() prints at least one decimal place
DecimalOfStr(f) == IF f.d = 0 THEN Dec(f.c * 10, 1) ELSE f

\* Decimal.quantize(step, rounding=ROUND_DOWN): the result takes the exponent
\* of step (not a multiple of step), digits beyond it are cut off
Quantize(q, step) ==
    IF q.d >= step.d
    THEN Dec(TruncDiv(q.c, 10^(q.d - step.d)), step.d)
    ELSE Dec(q.c * 10^(step.d - q.d), step.d)

round_down_qty(qty, step) ==
    LET q == DecimalOfStr(qty)
    IN  IF step.c = 0 THEN q ELSE Quantize(q, step)

\* variant: the price is rounded to the next tick above
round_price_up(price, tick) ==
    LET p == DecimalOfStr(price)
    IN  IF tick.c = 0 THEN p
        ELSE Dec((TruncDiv(p.c * 10^(tick.d), tick.c * 10^(p.d)) + 1) * tick.c, tick.d)

\* (p // tick) * tick
round_price_to_tick(price, tick) ==
    LET p == DecimalOfStr(price)
    IN  IF tick.c = 0 THEN p
        ELSE Dec(TruncDiv(p.c * 10^(tick.d), tick.c * 10^(p.d)) * tick.c, tick.d)

(***************************************************************************)
(* Validation helpers of utils.py.                                         *)
(***************************************************************************)
Upper(s) == CASE s = "buy"  -> "BUY"
              [] s = "sell" -> "SELL"
              [] OTHER      -> s

\* validate_side: the normalised side, or "ValueError"
validate_side(side) ==
    IF Upper(side) \in {"BUY", "SELL"} THEN Upper(side) ELSE "ValueError"

\* validate_positive_number: the float, or ValueError
validate_positive_number(v) ==
    IF ~IsDec(v) THEN ValueError
    ELSE IF Float(v).c <= 0 THEN ValueError
    ELSE Float(v)

(***************************************************************************)
(* Exchange metadata and parse_symbol_filters.                             *)
(***************************************************************************)
PriceFilter(tick) == [filterType |-> "PRICE_FILTER", tickSize |-> tick, stepSize |-> Absent]
LotSize(step)     == [filterType |-> "LOT_SIZE", tickSize |-> Absent, stepSize |-> step]

\* the requested symbol: tick 0.5, step 0.1
BtcInfo == [symbol |-> "BTCUSDT",
            filters |-> << PriceFilter(Dec(5, 1)), LotSize(Dec(1, 1)) >>]
\* another symbol of the exchange: tick 0.01, step 0.01
EthInfo == [symbol |-> "ETHUSDT",
            filters |-> << PriceFilter(Dec(1, 2)), LotSize(Dec(1, 2)) >>]
\* the "symbols" list of an exchangeInfo response
InfoResponses == { << >>, << BtcInfo >>, << EthInfo, BtcInfo >> }

RECURSIVE ParseFilters(_, _)
ParseFilters(fs, f) ==
    IF fs = << >> THEN f
    ELSE LET fil == Head(fs)
             g == CASE fil.filterType = "PRICE_FILTER" -> [f EXCEPT !.tickSize = fil.tickSize]
                    [] fil.filterType = "LOT_SIZE"     -> [f EXCEPT !.stepSize = fil.stepSize]
                    [] OTHER                           -> f
         IN  ParseFilters(Tail(fs), g)

parse_symbol_filters(symbol_info) ==
    ParseFilters(symbol_info.filters, [tickSize |-> Dec(0, 0), stepSize |-> Dec(0, 0)])

(***************************************************************************)
(* The exchange keeps quantities in hundredths (lots of 0.01) and prints   *)
(* them with two decimal places.                                           *)
(***************************************************************************)
\* a float quantity as sent in a request, in lots
Lots(f) == f.c * 10^(2 - f.d)
\* a quantity of the exchange as the text of a response ("0.20")
QtyText(n) == Dec(n, 2)

OpenStatuses == {"NEW", "PARTIALLY_FILLED"}
ClosedUnfilled == {"CANCELED", "REJECTED", "EXPIRED"}

\* lots a partial execution of an order falls short of the ordered quantity
Shortfall == 5

\* executed quantities (lots) the exchange may report for an order of n lots:
\* the entry may execute in two pieces, an exit leg executes in one
ExecLevels(role, n) == IF role = "entry" THEN {n - Shortfall, n} ELSE {n}

\* signed position (lots) of the account in the symbol before the run
InitPositions == {-20, 0, 20}

\* the order the exchange opens for an accepted placement
NewOrder(role, side, qty, ro) ==
    [role |-> role, side |-> side, origQty |-> Lots(qty), executedQty |-> 0,
     status |-> "NEW", reduceOnly |-> ro]

\* place_oco's poll_interval: the command line never passes it, so it is
\* always the default of the signature
poll_interval == 1

(***************************************************************************)
(* Requests.                                                               *)
(***************************************************************************)
SideInputs  == {"BUY", "sell", "HOLD"}
QtyInputs   == {NotANumber, Dec(0, 0), Dec(25, 2)}
TpInputs    == {Dec(0, 0), Dec(1057, 1)}
SlInputs    == {NotANumber, Dec(953, 1)}
Market      == [type |-> "MARKET", price |-> Absent]
LimitAt100  == [type |-> "LIMIT", price |-> Dec(100, 0)]
LimitNoPrice == [type |-> "LIMIT", price |-> Absent]

\* requests with a MARKET entry: every combination of the inputs, with no
\* wait and with the longest wait
MarketRequests ==
    [side : SideInputs, qty : QtyInputs, tp_price : TpInputs, sl_price : SlInputs,
     entry : {Market}, wait_timeout : {0, MaxTimeout}, detach : BOOLEAN]

\* requests with a LIMIT entry, with and without the entry price
LimitRequests ==
    [side : {"BUY"}, qty : {Dec(25, 2)}, tp_price : {Dec(1057, 1)},
     sl_price : {Dec(953, 1)}, entry : {LimitAt100, LimitNoPrice},
     wait_timeout : {MaxTimeout}, detach : BOOLEAN]

VARIABLES
    req,          \* the arguments of place_oco
    pc,           \* position of the run inside place_oco
    err,          \* the exception place_oco ended with ("none" while running)
    calls,        \* the requests the gateway has sent, in order
    now,          \* the wall clock, time.time()
    started,      \* _poll_order_filled: time the entry wait began
    start,        \* place_oco: time the race loop began
    orders,       \* exchange: the orders of this run by order id
    position,     \* exchange: signed position of the account, in lots
    filters,      \* tickSize and stepSize parsed from the metadata
    qty_dec,      \* requested quantity rounded to the step
    entry_resp,   \* response of the entry placement
    entry_final,  \* the order the poller returned
    leg_qty,      \* quantity of the exit legs
    prefer_reduce,\* reduce-only preference of the legs
    tp_resp, sl_resp, \* responses of the leg placements
    tp_o,         \* take-profit order fetched in the current race iteration
    winner,       \* "TP", "SL" or "none"
    result,       \* the dictionary place_oco returned
    current,      \* stop orders: the contract price _get_current_price returned
    slice_no,     \* execute_twap: the loop variable i
    results,      \* execute_twap: the responses of the accepted slices
    exit_code,    \* cli: the exit status of the command (-1 while it runs)
    price_dec     \* a price rounded to the tick

\* the variables place_oco does not touch
otherVars == << current, slice_no, results, exit_code, price_dec >>

vars == << req, pc, err, calls, now, started, start, orders, position, filters, qty_dec,
           entry_resp, entry_final, leg_qty, prefer_reduce, tp_resp, sl_resp,
           tp_o, winner, result, current, slice_no, results, exit_code, price_dec >>

\* an order as a response carries it; orderId 0 stands for a missing orderId
NoResp == [orderId |-> 0, status |-> "absent", executedQty |-> Absent, origQty |-> Absent]
NoResult == [returned |-> FALSE, detached |-> FALSE, winner |-> "none",
             entry |-> NoResp, tp |-> NoResp, sl |-> NoResp]

\* one request of the gateway as the exchange sees it
Call(op, role, side, qty, price, ro, res) ==
    [op |-> op, role |-> role, side |-> side, qty |-> qty, price |-> price,
     reduceOnly |-> ro, res |-> res]

\* a request that carries no order: time sync, metadata, account
PlainCall(op, res) == Call(op, "none", "none", Absent, Absent, FALSE, res)
\* a request about one order of the run: get_order, cancel_order
OrderCall(op, role, res) == Call(op, role, "none", Absent, Absent, FALSE, res)

\* what the record of a get_order request keeps of the status it returned
Seen(status) == IF status = "FILLED" THEN "FILLED" ELSE "UNFILLED"

\* the variables of the other commands, while place_oco runs
OthersIdle ==
    /\ current = Absent
    /\ slice_no = 0
    /\ results = << >>
    /\ exit_code = -1
    /\ price_dec = Absent

Init ==
    /\ req \in MarketRequests \cup LimitRequests
    /\ pc = "start"
    /\ err = "none"
    /\ calls = << >>
    /\ now = 0
    /\ started = 0
    /\ start = 0
    /\ orders = << >>
    /\ position \in InitPositions
    /\ filters = [tickSize |-> Dec(0, 0), stepSize |-> Dec(0, 0)]
    /\ qty_dec = Dec(0, 0)
    /\ entry_resp = NoResp
    /\ entry_final = NoResp
    /\ leg_qty = Dec(0, 0)
    /\ prefer_reduce = FALSE
    /\ tp_resp = NoResp
    /\ sl_resp = NoResp
    /\ tp_o = NoResp
    /\ winner = "none"
    /\ result = NoResult
    /\ OthersIdle

\* place_oco raises e
Raise(e) == pc' = "raised" /\ err' = e

(***************************************************************************)
(* place_oco, lines 41-44: validation of the arguments.                    *)
(***************************************************************************)
Validate ==
    /\ pc = "start"
    /\ IF \/ validate_side(req.side) = "ValueError"
          \/ validate_positive_number(req.qty) = ValueError
          \/ validate_positive_number(req.tp_price) = ValueError
          \/ validate_positive_number(req.sl_price) = ValueError
       THEN Raise("ValueError")
       ELSE pc' = "client" /\ err' = err
    /\ UNCHANGED << req, calls, now, started, start, orders, position, filters, qty_dec,
                    entry_resp, entry_final, leg_qty, prefer_reduce, tp_resp,
                    sl_resp, tp_o, winner, result >>
    /\ UNCHANGED otherVars

(***************************************************************************)
(* BinanceFuturesClient(): the constructor sends the time-sync request;    *)
(* its failure is logged and swallowed.                                    *)
(***************************************************************************)
NewClient ==
    /\ pc = "client"
    /\ calls' = Append(calls, PlainCall("time", "any"))
    /\ pc' = "info"
    /\ UNCHANGED << req, err, now, started, start, orders, position, filters, qty_dec,
                    entry_resp, entry_final, leg_qty, prefer_reduce, tp_resp,
                    sl_resp, tp_o, winner, result >>
    /\ UNCHANGED otherVars

(***************************************************************************)
(* place_oco, lines 47-55: metadata, filters of symbols[0], rounded qty.   *)
(***************************************************************************)
\* an answered metadata request; the record keeps whether the response had
\* a symbol in it
InfoCall(none) == PlainCall("exchangeInfo", IF none THEN "NO_SYMBOLS" ELSE "OK")

GetExchangeInfo ==
    /\ pc = "info"
    /\ \/ /\ calls' = Append(calls, PlainCall("exchangeInfo", "ERR"))
          /\ Raise("TransportError")
          /\ UNCHANGED << filters, qty_dec >>
       \/ \E symbols \in InfoResponses :
            /\ calls' = Append(calls, InfoCall(symbols = << >>))
            /\ IF symbols = << >>
               THEN Raise("SymbolInfoError") /\ UNCHANGED << filters, qty_dec >>
               ELSE LET f == parse_symbol_filters(symbols[1])
                        qty_f == validate_positive_number(req.qty)
                    IN  /\ filters' = f
                        /\ qty_dec' = round_down_qty(Float(DecimalOfStr(qty_f)), f.stepSize)
                        /\ pc' = "entry"
                        /\ err' = err
    /\ UNCHANGED << req, now, started, start, orders, position, entry_resp, entry_final,
                    leg_qty, prefer_reduce, tp_resp, sl_resp, tp_o, winner,
                    result >>
    /\ UNCHANGED otherVars

\* variant: a partly executed order passes for a filled one
IsFilledOrPartial(o) == o.status \in {"FILLED", "PARTIALLY_FILLED"}

\* (o.get("status") or "").upper() == "FILLED"
IsFilled(o) == o.status = "FILLED"

\* variant: the detach flag is not honoured after the entry
AfterEntryAlwaysPoll(detach) == "poll"

\* line 70: where place_oco goes once the entry is placed
AfterEntry(detach) == IF detach THEN "position" ELSE "poll"

\* the order ids the exchange gave to the orders of the run (0: none yet)
IdOf(role) ==
    IF \E i \in 1..Len(orders) : orders[i].role = role
    THEN CHOOSE i \in 1..Len(orders) : orders[i].role = role
    ELSE 0

\* the JSON of an order; the exchange may leave quantity fields out
OrderJson(id, hasExec, hasOrig) ==
    [orderId |-> id, status |-> orders[id].status,
     executedQty |-> IF hasExec THEN QtyText(orders[id].executedQty) ELSE Absent,
     origQty |-> IF hasOrig THEN QtyText(orders[id].origQty) ELSE Absent]

\* the response of an accepted placement: the new order, with or without orderId
PlacedJson(id, qty, hasId) ==
    [orderId |-> IF hasId THEN id ELSE 0, status |-> "NEW",
     executedQty |-> QtyText(0), origQty |-> QtyText(Lots(qty))]

(***************************************************************************)
(* place_oco, lines 58-70: the entry order.                                *)
(***************************************************************************)
PlaceEntry ==
    /\ pc = "entry"
    /\ LET side   == validate_side(req.side)
           market == req.entry.type = "MARKET"
           qty    == Float(qty_dec)
           price  == IF market THEN Absent ELSE Float(req.entry.price)
           typ    == IF market THEN "MARKET" ELSE "LIMIT"
       IN
       IF ~market /\ req.entry.price = Absent
       THEN /\ Raise("ValueError")
            /\ UNCHANGED << calls, orders, entry_resp, started >>
       ELSE \/ /\ calls' = Append(calls, Call("place", "entry", side, qty, price, FALSE, "ERR"))
               /\ Raise("TransportError")
               /\ UNCHANGED << orders, entry_resp, started >>
            \/ \E hasId \in BOOLEAN :
               /\ calls' = Append(calls, Call("place", "entry", side, qty, price, FALSE, "OK"))
               /\ orders' = Append(orders, NewOrder("entry", side, qty, FALSE))
               /\ entry_resp' = PlacedJson(Len(orders) + 1, qty, hasId)
               /\ IF ~hasId
                  THEN Raise("NoOrderId") /\ UNCHANGED started
                  ELSE /\ err' = err
                       /\ pc' = AfterEntry(req.detach)
                       /\ started' = IF pc' = "poll" THEN now ELSE started
    /\ UNCHANGED << req, now, start, position, filters, qty_dec, entry_final, leg_qty,
                    prefer_reduce, tp_resp, sl_resp, tp_o, winner, result >>
    /\ UNCHANGED otherVars

(***************************************************************************)
(* _poll_order_filled, lines 12-18: one fetch of the entry order and the   *)
(* two tests that follow it.                                               *)
(***************************************************************************)
\* variant: the elapsed time is never found to exceed the timeout
PollTimedOutNever(clock, t0, timeout) == clock - t0 > timeout + 1

\* variant: the wait ends as soon as the timeout is reached
PollTimedOutAtTimeout(clock, t0, timeout) == clock - t0 >= timeout

\* time.time() - started > timeout
PollTimedOut(clock, t0, timeout) == clock - t0 > timeout

\* the clock after time.sleep(d) in a loop begun at t0: it is only ever
\* compared with t0 + timeout, so it is kept no later than one past that
Slept(clock, d, t0, timeout) ==
    IF clock + d > t0 + timeout + 1 THEN t0 + timeout + 1 ELSE clock + d

\* the clock after the requests of one iteration of a polling loop: the round
\* trips to the exchange take at least one unit of the clock
AfterRequest(clock, t0, timeout) == Slept(clock, 1, t0, timeout)

PollOrderFilled ==
    /\ pc = "poll"
    /\ now' = AfterRequest(now, started, req.wait_timeout)
    /\ LET id == entry_resp.orderId IN
       \/ /\ calls' = Append(calls, OrderCall("get_order", "entry", "ERR"))
          /\ Raise("TransportError")
          /\ UNCHANGED entry_final
       \/ \E hasExec \in BOOLEAN, hasOrig \in BOOLEAN :
          LET o == OrderJson(id, hasExec, hasOrig) IN
          /\ hasExec => hasOrig
          /\ calls' = Append(calls, OrderCall("get_order", "entry", Seen(o.status)))
          /\ err' = err
          /\ IF IsFilled(o)
             THEN pc' = "poll_ret" /\ entry_final' = o
             ELSE IF PollTimedOut(now', started, req.wait_timeout)
                  THEN pc' = "poll_ret" /\ entry_final' = o
                  ELSE pc' = "poll_sleep" /\ UNCHANGED entry_final
    /\ UNCHANGED << req, started, start, orders, position, filters, qty_dec, entry_resp,
                    leg_qty, prefer_reduce, tp_resp, sl_resp, tp_o, winner,
                    result >>
    /\ UNCHANGED otherVars

\* a sleep lasts the interval asked for, or longer
Oversleep == {0, 1}

\* _poll_order_filled, line 19
PollSleep ==
    /\ pc = "poll_sleep"
    /\ \E extra \in Oversleep :
          now' = Slept(now, poll_interval + extra, started, req.wait_timeout)
    /\ pc' = "poll"
    /\ UNCHANGED << req, err, calls, started, start, orders, position, filters, qty_dec,
                    entry_resp, entry_final, leg_qty, prefer_reduce, tp_resp,
                    sl_resp, tp_o, winner, result >>
    /\ UNCHANGED otherVars

(***************************************************************************)
(* place_oco, lines 83-89: the entry the poller returned must be FILLED;   *)
(* the legs are sized off its executed quantity.                           *)
(***************************************************************************)
\* variant: the ordered quantity is preferred to the executed one
ExecutedQtyOrigFirst(o, fallback) ==
    IF o.origQty # Absent THEN o.origQty
    ELSE IF o.executedQty # Absent THEN o.executedQty
    ELSE fallback

\* entry_final.get("executedQty") or entry_final.get("origQty") or qty_dec
ExecutedQty(o, fallback) ==
    IF o.executedQty # Absent THEN o.executedQty
    ELSE IF o.origQty # Absent THEN o.origQty
    ELSE fallback

\* variant: only an entry the exchange has ended unfilled is refused
EntryCheckEndedOnly ==
    /\ pc = "poll_ret"
    /\ IF entry_final.status \in ClosedUnfilled
       THEN Raise("EntryNotFilled") /\ UNCHANGED leg_qty
       ELSE /\ leg_qty' = round_down_qty(Float(ExecutedQty(entry_final, qty_dec)),
                                         filters.stepSize)
            /\ pc' = "position"
            /\ err' = err
    /\ UNCHANGED << req, calls, now, started, start, orders, position, filters,
                    qty_dec, entry_resp, entry_final, prefer_reduce, tp_resp,
                    sl_resp, tp_o, winner, result >>
    /\ UNCHANGED otherVars

EntryCheck ==
    /\ pc = "poll_ret"
    /\ IF ~IsFilled(entry_final)
       THEN Raise("EntryNotFilled") /\ UNCHANGED leg_qty
       ELSE /\ leg_qty' = round_down_qty(Float(ExecutedQty(entry_final, qty_dec)),
                                         filters.stepSize)
            /\ pc' = "position"
            /\ err' = err
    /\ UNCHANGED << req, calls, now, started, start, orders, position, filters,
                    qty_dec, entry_resp, entry_final, prefer_reduce, tp_resp,
                    sl_resp, tp_o, winner, result >>
    /\ UNCHANGED otherVars

(***************************************************************************)
(* _get_position_amount and the reduce-only preference, lines 75-76 and    *)
(* 90-91.                                                                  *)
(***************************************************************************)
\* variant: any open position makes the legs reduce-only
PreferReduceAnyPosition(side, pos) == pos.c # 0

\* an answered account request: qty is the positionAmt of the symbol
AccountCall(amt) == Call("get_account", "none", "none", amt, Absent, FALSE, "OK")

\* lines 76 and 91
PreferReduce(side, pos) == (side = "BUY" /\ pos.c > 0) \/ (side = "SELL" /\ pos.c < 0)

GetPositionAmount ==
    /\ pc = "position"
    /\ \/ /\ calls' = Append(calls, PlainCall("get_account", "ERR"))
          /\ Raise("TransportError")
          /\ UNCHANGED prefer_reduce
       \/ /\ calls' = Append(calls, AccountCall(QtyText(position)))
          /\ prefer_reduce' = PreferReduce(validate_side(req.side), QtyText(position))
          /\ pc' = "tp"
          /\ err' = err
    /\ UNCHANGED << req, now, started, start, orders, position, filters, qty_dec,
                    entry_resp, entry_final, leg_qty, tp_resp, sl_resp, tp_o,
                    winner, result >>
    /\ UNCHANGED otherVars

(***************************************************************************)
(* _place_limit_leg_with_reduce_fallback, lines 28-38, as place_oco calls  *)
(* it for the take-profit leg and then for the stop-loss leg.              *)
(***************************************************************************)
Legs == {"tp", "sl"}

\* variant: the legs are sent on the side of the entry
LegSideOfEntry(side) == side

\* line 72 and line 87: the side that closes the entry
LegSide(side) == IF side = "BUY" THEN "SELL" ELSE "BUY"

\* the quantity place_oco passes for a leg: qty_dec when detached (lines
\* 77-78), leg_qty otherwise (lines 92-93)
LegQuantity == IF req.detach THEN qty_dec ELSE leg_qty

LegPrice(leg) ==
    round_price_to_tick(validate_positive_number(
                            IF leg = "tp" THEN req.tp_price ELSE req.sl_price),
                        filters.tickSize)

FallbackPc(leg) == IF leg = "tp" THEN "tp_fallback" ELSE "sl_fallback"

LegCall(leg, ro, res) ==
    Call("place", leg, LegSide(validate_side(req.side)), Float(LegQuantity),
         Float(LegPrice(leg)), ro, res)

\* the leg's placement returned resp: place_oco goes on after the call
LegPlaced(leg, resp) ==
    IF leg = "tp"
    THEN /\ tp_resp' = resp
         /\ pc' = "sl"
         /\ UNCHANGED << sl_resp, start, result >>
    ELSE /\ sl_resp' = resp
         /\ UNCHANGED tp_resp
         /\ IF req.detach
            THEN /\ pc' = "done"
                 /\ result' = [returned |-> TRUE, detached |-> TRUE, winner |-> "none",
                               entry |-> entry_resp, tp |-> tp_resp, sl |-> resp]
                 /\ UNCHANGED start
            ELSE /\ pc' = "race"
                 /\ start' = now
                 /\ UNCHANGED result

\* the ways a placement fails: the request does not get through or is answered
\* with a server error ("ERR"), or the exchange refuses the order with an error
\* status ("REJECTED"); _signed_request raises for both
Failures == {"ERR", "REJECTED"}

\* the exception _signed_request raises for a failure
Raised(failure) == IF failure = "REJECTED" THEN "HTTPError" ELSE "TransportError"

\* variant: the reduce-only attempt has no fallback
PlaceLegReduceOnlyOrFail(leg) ==
    /\ pc = leg
    /\ prefer_reduce
    /\ \/ /\ \E failure \in Failures :
                /\ calls' = Append(calls, LegCall(leg, TRUE, failure))
                /\ Raise(Raised(failure))
          /\ UNCHANGED << orders, tp_resp, sl_resp, start, result >>
       \/ /\ calls' = Append(calls, LegCall(leg, TRUE, "OK"))
          /\ orders' = Append(orders, NewOrder(leg, LegSide(validate_side(req.side)),
                                               Float(LegQuantity), TRUE))
          /\ err' = err
          /\ LegPlaced(leg, PlacedJson(Len(orders) + 1, Float(LegQuantity), TRUE))
    /\ UNCHANGED << req, now, started, position, filters, qty_dec, entry_resp,
                    entry_final, leg_qty, prefer_reduce, tp_o, winner >>
    /\ UNCHANGED otherVars

\* line 33: the attempt with reduce_only=True; any exception falls through
PlaceLegReduceOnly(leg) ==
    /\ pc = leg
    /\ prefer_reduce
    /\ \/ /\ \E failure \in Failures : calls' = Append(calls, LegCall(leg, TRUE, failure))
          /\ pc' = FallbackPc(leg)
          /\ UNCHANGED << orders, tp_resp, sl_resp, start, result >>
       \/ /\ calls' = Append(calls, LegCall(leg, TRUE, "OK"))
          /\ orders' = Append(orders, NewOrder(leg, LegSide(validate_side(req.side)),
                                               Float(LegQuantity), TRUE))
          /\ LegPlaced(leg, PlacedJson(Len(orders) + 1, Float(LegQuantity), TRUE))
    /\ UNCHANGED << req, err, now, started, position, filters, qty_dec, entry_resp,
                    entry_final, leg_qty, prefer_reduce, tp_o, winner >>
    /\ UNCHANGED otherVars

\* line 37: the attempt with reduce_only=False; its exception is the leg's
PlaceLegPlain(leg) ==
    /\ \/ pc = leg /\ ~prefer_reduce
       \/ pc = FallbackPc(leg)
    /\ \/ /\ \E failure \in Failures :
                /\ calls' = Append(calls, LegCall(leg, FALSE, failure))
                /\ Raise(Raised(failure))
          /\ UNCHANGED << orders, tp_resp, sl_resp, start, result >>
       \/ /\ calls' = Append(calls, LegCall(leg, FALSE, "OK"))
          /\ orders' = Append(orders, NewOrder(leg, LegSide(validate_side(req.side)),
                                               Float(LegQuantity), FALSE))
          /\ err' = err
          /\ LegPlaced(leg, PlacedJson(Len(orders) + 1, Float(LegQuantity), TRUE))
    /\ UNCHANGED << req, now, started, position, filters, qty_dec, entry_resp,
                    entry_final, leg_qty, prefer_reduce, tp_o, winner >>
    /\ UNCHANGED otherVars

(***************************************************************************)
(* place_oco, lines 99-114: the race between the two legs.  An iteration   *)
(* fetches the take-profit leg, then the stop-loss leg, then tests them.   *)
(***************************************************************************)
\* variant: a fetch that fails cancels the legs' orders before it raises
RacePollTpCleansUp ==
    /\ pc = "race"
    /\ \/ /\ calls' = calls \o << OrderCall("get_order", "tp", "ERR"),
                                  OrderCall("cancel_order", "tp", "OK"),
                                  OrderCall("cancel_order", "sl", "OK") >>
          /\ Raise("TransportError")
          /\ UNCHANGED tp_o
       \/ LET o == OrderJson(tp_resp.orderId, TRUE, TRUE) IN
          /\ calls' = Append(calls, OrderCall("get_order", "tp", Seen(o.status)))
          /\ tp_o' = o
          /\ pc' = "race_sl"
          /\ err' = err
    /\ UNCHANGED << req, now, started, start, orders, position, filters, qty_dec,
                    entry_resp, entry_final, leg_qty, prefer_reduce, tp_resp,
                    sl_resp, winner, result >>
    /\ UNCHANGED otherVars

\* line 100
RacePollTp ==
    /\ pc = "race"
    /\ \/ /\ calls' = Append(calls, OrderCall("get_order", "tp", "ERR"))
          /\ Raise("TransportError")
          /\ UNCHANGED tp_o
       \/ LET o == OrderJson(tp_resp.orderId, TRUE, TRUE) IN
          /\ calls' = Append(calls, OrderCall("get_order", "tp", Seen(o.status)))
          /\ tp_o' = o
          /\ pc' = "race_sl"
          /\ err' = err
    /\ UNCHANGED << req, now, started, start, orders, position, filters, qty_dec,
                    entry_resp, entry_final, leg_qty, prefer_reduce, tp_resp,
                    sl_resp, winner, result >>
    /\ UNCHANGED otherVars

\* variant: the legs are returned as the exchange holds them at the return
ReturnedAsFetched(w) ==
    [returned |-> TRUE, detached |-> FALSE, winner |-> w, entry |-> entry_final,
     tp |-> OrderJson(tp_resp.orderId, TRUE, TRUE),
     sl |-> OrderJson(sl_resp.orderId, TRUE, TRUE)]

\* line 115
Returned(w) == [returned |-> TRUE, detached |-> FALSE, winner |-> w,
                entry |-> entry_final, tp |-> tp_resp, sl |-> sl_resp]

\* variant: the stop-loss status is tested before the take-profit status
RacePollSlTestedFirst ==
    /\ pc = "race_sl"
    /\ now' = AfterRequest(now, start, req.wait_timeout)
    /\ \/ /\ calls' = Append(calls, OrderCall("get_order", "sl", "ERR"))
          /\ Raise("TransportError")
          /\ UNCHANGED << tp_o, winner, result >>
       \/ LET o == OrderJson(sl_resp.orderId, TRUE, TRUE) IN
          /\ calls' = Append(calls, OrderCall("get_order", "sl", Seen(o.status)))
          /\ err' = err
          /\ tp_o' = NoResp
          /\ IF IsFilled(o)
             THEN winner' = "SL" /\ pc' = "cancel" /\ UNCHANGED result
             ELSE IF IsFilled(tp_o)
             THEN winner' = "TP" /\ pc' = "cancel" /\ UNCHANGED result
             ELSE IF PollTimedOut(now', start, req.wait_timeout)
             THEN pc' = "done" /\ result' = Returned("none") /\ UNCHANGED winner
             ELSE pc' = "race_sleep" /\ UNCHANGED << winner, result >>
    /\ UNCHANGED << req, started, start, orders, position, filters, qty_dec,
                    entry_resp, entry_final, leg_qty, prefer_reduce, tp_resp,
                    sl_resp >>
    /\ UNCHANGED otherVars

\* lines 101-114
RacePollSl ==
    /\ pc = "race_sl"
    /\ now' = AfterRequest(now, start, req.wait_timeout)
    /\ \/ /\ calls' = Append(calls, OrderCall("get_order", "sl", "ERR"))
          /\ Raise("TransportError")
          /\ UNCHANGED << tp_o, winner, result >>
       \/ LET o == OrderJson(sl_resp.orderId, TRUE, TRUE) IN
          /\ calls' = Append(calls, OrderCall("get_order", "sl", Seen(o.status)))
          /\ err' = err
          /\ tp_o' = NoResp    \* not read again before line 100 overwrites it
          /\ IF IsFilled(tp_o)
             THEN winner' = "TP" /\ pc' = "cancel" /\ UNCHANGED result
             ELSE IF IsFilled(o)
             THEN winner' = "SL" /\ pc' = "cancel" /\ UNCHANGED result
             ELSE IF PollTimedOut(now', start, req.wait_timeout)
             THEN pc' = "done" /\ result' = Returned("none") /\ UNCHANGED winner
             ELSE pc' = "race_sleep" /\ UNCHANGED << winner, result >>
    /\ UNCHANGED << req, started, start, orders, position, filters, qty_dec,
                    entry_resp, entry_final, leg_qty, prefer_reduce, tp_resp,
                    sl_resp >>
    /\ UNCHANGED otherVars

\* line 114
RaceSleep ==
    /\ pc = "race_sleep"
    /\ \E extra \in Oversleep :
          now' = Slept(now, poll_interval + extra, start, req.wait_timeout)
    /\ pc' = "race"
    /\ UNCHANGED << req, err, calls, started, start, orders, position, filters,
                    qty_dec, entry_resp, entry_final, leg_qty, prefer_reduce,
                    tp_resp, sl_resp, tp_o, winner, result >>
    /\ UNCHANGED otherVars

\* variant: the cancellation goes to the leg that filled
LoserIsWinner(w) == IF w = "TP" THEN "tp" ELSE "sl"

\* the leg a winner leaves to cancel
Loser(w) == IF w = "TP" THEN "sl" ELSE "tp"

\* variant: a failed cancellation is not swallowed
CancelLoserRaises ==
    /\ pc = "cancel"
    /\ LET role == Loser(winner)
           id   == IF role = "sl" THEN sl_resp.orderId ELSE tp_resp.orderId
       IN  \/ /\ calls' = Append(calls, OrderCall("cancel_order", role, "ERR"))
              /\ Raise("TransportError")
              /\ UNCHANGED << orders, result >>
           \/ /\ orders[id].status \in OpenStatuses
              /\ calls' = Append(calls, OrderCall("cancel_order", role, "OK"))
              /\ orders' = [orders EXCEPT ![id].status = "CANCELED"]
              /\ pc' = "done"
              /\ err' = err
              /\ result' = Returned(winner)
    /\ UNCHANGED << req, now, started, start, position, filters, qty_dec,
                    entry_resp, entry_final, leg_qty, prefer_reduce, tp_resp,
                    sl_resp, tp_o, winner >>
    /\ UNCHANGED otherVars

\* lines 104-106 and 109-111: cancel the other leg, swallow a failure, return
CancelLoser ==
    /\ pc = "cancel"
    /\ LET role == Loser(winner)
           id   == IF role = "sl" THEN sl_resp.orderId ELSE tp_resp.orderId
       IN  \/ /\ calls' = Append(calls, OrderCall("cancel_order", role, "ERR"))
              /\ UNCHANGED orders
           \/ /\ orders[id].status \in OpenStatuses
              /\ calls' = Append(calls, OrderCall("cancel_order", role, "OK"))
              /\ orders' = [orders EXCEPT ![id].status = "CANCELED"]
    /\ pc' = "done"
    /\ result' = Returned(winner)
    /\ UNCHANGED << req, err, now, started, start, position, filters, qty_dec,
                    entry_resp, entry_final, leg_qty, prefer_reduce, tp_resp,
                    sl_resp, tp_o, winner >>
    /\ UNCHANGED otherVars

(***************************************************************************)
(* The environment: the exchange.                                          *)
(***************************************************************************)
Running == pc \notin {"start", "done", "raised"}

\* the position after an order of the given side executes delta more lots
Executed(pos, side, delta) == IF side = "BUY" THEN pos + delta ELSE pos - delta

\* a reduce-only order executes only against an opposite position, and at
\* most down to flat
MayExecute(o, pos, delta) ==
    o.reduceOnly => IF o.side = "SELL" THEN pos >= delta ELSE -pos >= delta

\* the exchange executes (more of) an open order; it reports FILLED when the
\* order is complete, and may report FILLED for a lower executed quantity
ExchFill(id) ==
    /\ Running
    /\ orders[id].status \in OpenStatuses
    /\ \E lvl \in ExecLevels(orders[id].role, orders[id].origQty), st \in {"PARTIALLY_FILLED", "FILLED"} :
          LET o == orders[id]
              delta == lvl - o.executedQty
          IN  /\ lvl > o.executedQty
              /\ lvl <= o.origQty
              /\ lvl = o.origQty => st = "FILLED"
              /\ MayExecute(o, position, delta)
              /\ orders' = [orders EXCEPT ![id].executedQty = lvl, ![id].status = st]
              /\ position' = Executed(position, o.side, delta)
    /\ UNCHANGED << req, pc, err, calls, now, started, start, filters, qty_dec,
                    entry_resp, entry_final, leg_qty, prefer_reduce, tp_resp,
                    sl_resp, tp_o, winner, result >>
    /\ UNCHANGED otherVars

\* the exchange ends an open order without completing it
ExchClose(id) ==
    /\ Running
    /\ orders[id].status \in OpenStatuses
    /\ \E st \in ClosedUnfilled : orders' = [orders EXCEPT ![id].status = st]
    /\ UNCHANGED << req, pc, err, calls, now, started, start, position, filters,
                    qty_dec, entry_resp, entry_final, leg_qty, prefer_reduce,
                    tp_resp, sl_resp, tp_o, winner, result >>
    /\ UNCHANGED otherVars

Next ==
    \/ Validate
    \/ NewClient
    \/ GetExchangeInfo
    \/ PlaceEntry
    \/ PollOrderFilled
    \/ PollSleep
    \/ EntryCheck
    \/ GetPositionAmount
    \/ \E leg \in Legs : PlaceLegReduceOnly(leg)
    \/ \E leg \in Legs : PlaceLegPlain(leg)
    \/ RacePollTp
    \/ RacePollSl
    \/ RaceSleep
    \/ CancelLoser
    \/ \E id \in 1..Len(orders) : ExchFill(id)
    \/ \E id \in 1..Len(orders) : ExchClose(id)

Spec == Init /\ [][Next]_vars

\* the steps of place_oco itself: python runs them one after the other
PlaceOco ==
    \/ Validate
    \/ NewClient
    \/ GetExchangeInfo
    \/ PlaceEntry
    \/ PollOrderFilled
    \/ PollSleep
    \/ EntryCheck
    \/ GetPositionAmount
    \/ \E leg \in Legs : PlaceLegReduceOnly(leg)
    \/ \E leg \in Legs : PlaceLegPlain(leg)
    \/ RacePollTp
    \/ RacePollSl
    \/ RaceSleep
    \/ CancelLoser

\* every request returns or raises and every sleep ends, so the run takes its
\* next step
FairSpec == Spec /\ WF_vars(PlaceOco)

(***************************************************************************)
(* Stop orders: place_stop_limit and place_stop_market of                  *)
(* src/src/advanced/stop_orders.py.  One run of one of them is one         *)
(* behaviour of StopSpec.                                                  *)
(***************************************************************************)
\* Decimal + and -
DecAdd(x, y) ==
    LET d == IF x.d > y.d THEN x.d ELSE y.d
    IN  Dec(x.c * 10^(d - x.d) + y.c * 10^(d - y.d), d)
DecSub(x, y) ==
    LET d == IF x.d > y.d THEN x.d ELSE y.d
    IN  Dec(x.c * 10^(d - x.d) - y.c * 10^(d - y.d), d)

\* a symbol whose metadata has no PRICE_FILTER: its tick parses as zero
BareInfo == [symbol |-> "BTCUSDT", filters |-> << LotSize(Dec(1, 1)) >>]
StopInfoResponses == InfoResponses \cup { << BareInfo >> }

\* the "price" of a ticker response: a text with two decimals, or missing
TickerPrices == {Absent, Dec(100, 2), Dec(130, 2)}

StopPriceInputs ==
    {Dec(0, 0), Dec(5, 1), Dec(9998, 4), Dec(9999, 4), Dec(1, 0),
     Dec(10001, 4), Dec(10002, 4), Dec(15, 1), Dec(17, 1), Dec(2, 0)}

\* the arguments of place_stop_limit ("STOP") and place_stop_market
\* ("STOP_MARKET"); flag is reduce_only of the first and close_position of
\* the second
StopRequests ==
    [kind : {"STOP", "STOP_MARKET"}, side : SideInputs, qty : {Dec(25, 2)},
     stop_price : StopPriceInputs, limit_price : {NotANumber, Dec(212, 2)},
     flag : BOOLEAN]

StopInit ==
    /\ req \in StopRequests
    /\ pc = "start"
    /\ err = "none"
    /\ calls = << >>
    /\ now = 0
    /\ started = 0
    /\ start = 0
    /\ orders = << >>
    /\ position = 0
    /\ filters = [tickSize |-> Dec(0, 0), stepSize |-> Dec(0, 0)]
    /\ qty_dec = Dec(0, 0)
    /\ entry_resp = NoResp
    /\ entry_final = NoResp
    /\ leg_qty = Dec(0, 0)
    /\ prefer_reduce = FALSE
    /\ tp_resp = NoResp
    /\ sl_resp = NoResp
    /\ tp_o = NoResp
    /\ winner = "none"
    /\ result = NoResult
    /\ OthersIdle

\* the variables of place_oco the stop orders do not use
ocoVars == << now, started, start, orders, position, entry_resp, entry_final, leg_qty,
              prefer_reduce, tp_resp, sl_resp, tp_o, winner >>

\* lines 49-52 and 85-87: validation of the arguments
StopValidate ==
    /\ pc = "start"
    /\ IF \/ validate_side(req.side) = "ValueError"
          \/ validate_positive_number(req.qty) = ValueError
          \/ validate_positive_number(req.stop_price) = ValueError
          \/ req.kind = "STOP" /\ validate_positive_number(req.limit_price) = ValueError
       THEN Raise("ValueError")
       ELSE pc' = "client" /\ err' = err
    /\ UNCHANGED << req, calls, filters, qty_dec, result >>
    /\ UNCHANGED ocoVars
    /\ UNCHANGED otherVars

\* lines 55-62 and 90-97: metadata, filters of symbols[0], rounded quantity
StopGetExchangeInfo ==
    /\ pc = "info"
    /\ \/ /\ calls' = Append(calls, PlainCall("exchangeInfo", "ERR"))
          /\ Raise("TransportError")
          /\ UNCHANGED << filters, qty_dec >>
       \/ \E symbols \in StopInfoResponses :
            /\ calls' = Append(calls, InfoCall(symbols = << >>))
            /\ IF symbols = << >>
               THEN Raise("SymbolInfoError") /\ UNCHANGED << filters, qty_dec >>
               ELSE LET f == parse_symbol_filters(symbols[1])
                        qty_f == validate_positive_number(req.qty)
                    IN  /\ filters' = f
                        /\ qty_dec' = round_down_qty(Float(DecimalOfStr(qty_f)), f.stepSize)
                        /\ pc' = "stop_check"
                        /\ err' = err
    /\ UNCHANGED << req, result >>
    /\ UNCHANGED ocoVars
    /\ UNCHANGED otherVars

\* lines 60 and 95: tick = filters["tickSize"] or Decimal("0.0001")
tick == IF filters.tickSize.c = 0 THEN Dec(1, 4) ELSE filters.tickSize

\* lines 63-64 and 98
limit_price_dec == round_price_to_tick(validate_positive_number(req.limit_price), tick)
stop_price_dec == round_price_to_tick(validate_positive_number(req.stop_price), tick)

\* variant: a stop exactly one buffer away from the market passes
validate_stop_at_buffer(side, stop_price, cur, t) ==
    LET buffer == IF t.c # 0 THEN t ELSE Dec(1, 4)
    IN  IF side = "BUY"
        THEN DecLe(DecAdd(cur, buffer), stop_price)
        ELSE DecLe(stop_price, DecSub(cur, buffer))

\* _validate_stop_vs_market, lines 30-40: TRUE when it raises nothing
validate_stop_vs_market(side, stop_price, cur, t) ==
    LET buffer == IF t.c # 0 THEN t ELSE Dec(1, 4)
    IN  IF side = "BUY"
        THEN DecLt(DecAdd(cur, buffer), stop_price)
        ELSE DecLt(stop_price, DecSub(cur, buffer))

\* lines 67 and 101, with _get_current_price (lines 15-19)
ValidateStopVsMarket ==
    /\ pc = "stop_check"
    /\ \/ /\ calls' = Append(calls, PlainCall("ticker", "ERR"))
          /\ Raise("TransportError")
          /\ UNCHANGED current
       \/ \E price \in TickerPrices :
            /\ calls' = Append(calls, PlainCall("ticker", "OK"))
            /\ current' = IF price = Absent THEN Dec(0, 0) ELSE price
            /\ IF validate_stop_vs_market(validate_side(req.side), stop_price_dec,
                                          current', tick)
               THEN pc' = "stop_place" /\ err' = err
               ELSE Raise("ValueError")
    /\ UNCHANGED << req, filters, qty_dec, result >>
    /\ UNCHANGED ocoVars
    /\ UNCHANGED << slice_no, results, exit_code, price_dec >>

\* the placement request of a stop order as the exchange sees it
StopCall(res) ==
    [op |-> "place", type |-> req.kind, side |-> validate_side(req.side),
     qty |-> Float(qty_dec),
     price |-> IF req.kind = "STOP" THEN Float(limit_price_dec) ELSE Absent,
     stopPrice |-> Float(stop_price_dec),
     reduceOnly |-> req.kind = "STOP" /\ req.flag,
     closePosition |-> req.kind = "STOP_MARKET" /\ req.flag,
     res |-> res]

\* lines 71-75 and 104-106
PlaceStop ==
    /\ pc = "stop_place"
    /\ \/ \E failure \in Failures :
            /\ calls' = Append(calls, StopCall(failure))
            /\ Raise(Raised(failure))
            /\ UNCHANGED result
       \/ /\ calls' = Append(calls, StopCall("OK"))
          /\ pc' = "done"
          /\ err' = err
          /\ result' = [returned |-> TRUE, orderId |-> 1, status |-> "NEW"]
    /\ UNCHANGED << req, filters, qty_dec >>
    /\ UNCHANGED ocoVars
    /\ UNCHANGED otherVars

StopNext ==
    \/ StopValidate
    \/ NewClient
    \/ StopGetExchangeInfo
    \/ ValidateStopVsMarket
    \/ PlaceStop

StopSpec == StopInit /\ [][StopNext]_vars

(***************************************************************************)
(* TWAP: execute_twap of src/src/advanced/twap.py.  One run is one         *)
(* behaviour of TwapSpec.                                                  *)
(***************************************************************************)
\* largest number of slices a request is drawn with
MaxParts == 4

TwapRequests ==
    [side : {"BUY", "SELL"}, total_qty : {NotANumber, Dec(2, 2), Dec(1, 0)},
     parts : 0..MaxParts, interval : 0..2]

RECURSIVE Gcd(_, _)
Gcd(a, b) == IF b = 0 THEN a ELSE Gcd(b, a % b)

\* line 31: float(total_qty) / parts, kept as the exact quotient num/den
slice_qty(total, parts) ==
    LET den == (10^total.d) * parts
        g   == Gcd(total.c, den)
    IN  [num |-> total.c \div g, den |-> den \div g]

\* the parameters of BinanceFuturesClient.place_order (client_wrapper.py
\* lines 121-123) and those without a default
PlaceOrderParams ==
    {"symbol", "side", "order_type", "quantity", "price", "time_in_force",
     "reduce_only", "stop_price", "close_position", "working_type"}
PlaceOrderRequired == {"symbol", "side", "order_type", "quantity"}

\* python binds a call by keywords only if every keyword is a parameter and
\* every parameter without default is given; otherwise it raises TypeError
\* and the function body does not run
Binds(keywords) == keywords \subseteq PlaceOrderParams /\ PlaceOrderRequired \subseteq keywords

\* lines 51-56: the keywords execute_twap calls place_order with
TwapKeywords == {"symbol", "side", "type", "quantity"}

TwapInit ==
    /\ req \in TwapRequests
    /\ pc = "start"
    /\ err = "none"
    /\ calls = << >>
    /\ now = 0
    /\ started = 0
    /\ start = 0
    /\ orders = << >>
    /\ position = 0
    /\ filters = [tickSize |-> Dec(0, 0), stepSize |-> Dec(0, 0)]
    /\ qty_dec = Dec(0, 0)
    /\ entry_resp = NoResp
    /\ entry_final = NoResp
    /\ leg_qty = Dec(0, 0)
    /\ prefer_reduce = FALSE
    /\ tp_resp = NoResp
    /\ sl_resp = NoResp
    /\ tp_o = NoResp
    /\ winner = "none"
    /\ result = NoResult
    /\ OthersIdle

\* the variables execute_twap does not use
notTwapVars == << started, start, orders, position, filters, qty_dec, entry_resp,
                  entry_final, leg_qty, prefer_reduce, tp_resp, sl_resp, tp_o, winner,
                  current, exit_code, price_dec >>

\* lines 26-31: the two range tests, then float(total_qty)
TwapValidate ==
    /\ pc = "start"
    /\ IF req.parts < 1 \/ req.interval < 1 \/ ~IsDec(req.total_qty)
       THEN Raise("ValueError")
       ELSE pc' = "client" /\ err' = err
    /\ UNCHANGED << req, calls, now, result, slice_no, results >>
    /\ UNCHANGED notTwapVars

\* line 43: the constructor sends the time-sync request; line 49: the loop
\* begins with i = 1
TwapNewClient ==
    /\ pc = "client"
    /\ calls' = Append(calls, PlainCall("time", "any"))
    /\ slice_no' = 1
    /\ pc' = "slice"
    /\ UNCHANGED << req, err, now, result, results >>
    /\ UNCHANGED notTwapVars

\* the placement request of a slice as the exchange sees it
TwapCall(res) ==
    [op |-> "place", type |-> "MARKET", side |-> req.side,
     qty |-> slice_qty(req.total_qty, req.parts), res |-> res]

\* variant: a slice that raises ends the run with its exception
TwapSliceAborts ==
    /\ pc = "slice"
    /\ slice_no <= req.parts
    /\ slice_no' = slice_no + 1
    /\ \/ /\ ~Binds(TwapKeywords)
          /\ Raise("TypeError")
          /\ UNCHANGED << calls, results, now >>
       \/ /\ Binds(TwapKeywords)
          /\ \E failure \in Failures :
                calls' = Append(calls, TwapCall(failure)) /\ Raise(Raised(failure))
          /\ UNCHANGED << results, now >>
       \/ /\ Binds(TwapKeywords)
          /\ calls' = Append(calls, TwapCall("OK"))
          /\ results' = Append(results, [orderId |-> Len(results) + 1, status |-> "NEW"])
          /\ now' = IF slice_no # req.parts THEN now + req.interval ELSE now
          /\ UNCHANGED << pc, err >>
    /\ UNCHANGED << req, result >>
    /\ UNCHANGED notTwapVars

\* lines 49-82: one round of the loop.  A slice that raises, in the call
\* itself or in the request, is logged and the loop continues without the
\* sleep; an accepted slice is kept and followed by the sleep, except the last
TwapSlice ==
    /\ pc = "slice"
    /\ slice_no <= req.parts
    /\ slice_no' = slice_no + 1
    /\ \/ /\ ~Binds(TwapKeywords)
          /\ UNCHANGED << calls, results, now >>
       \/ /\ Binds(TwapKeywords)
          /\ \E failure \in Failures : calls' = Append(calls, TwapCall(failure))
          /\ UNCHANGED << results, now >>
       \/ /\ Binds(TwapKeywords)
          /\ calls' = Append(calls, TwapCall("OK"))
          /\ results' = Append(results, [orderId |-> Len(results) + 1, status |-> "NEW"])
          /\ now' = IF slice_no # req.parts THEN now + req.interval ELSE now
    /\ UNCHANGED << req, pc, err, result >>
    /\ UNCHANGED notTwapVars

\* lines 84-98: after the loop
TwapReturn ==
    /\ pc = "slice"
    /\ slice_no > req.parts
    /\ pc' = "done"
    /\ result' = [returned |-> TRUE, executed_slices |-> Len(results),
                  expected_slices |-> req.parts,
                  slice_qty |-> slice_qty(req.total_qty, req.parts)]
    /\ UNCHANGED << req, err, calls, now, slice_no, results >>
    /\ UNCHANGED notTwapVars

TwapNext ==
    \/ TwapValidate
    \/ TwapNewClient
    \/ TwapSlice
    \/ TwapReturn

TwapSpec == TwapInit /\ [][TwapNext]_vars

(***************************************************************************)
(* The command line of src/src/cli.py.  One run of one subcommand is one   *)
(* behaviour of CliSpec; exit_code is the status the process ends with: 0  *)
(* when the command function returns, the argument of sys.exit otherwise.  *)
(***************************************************************************)
\* the commands that wrap one function of the package in try/except
OperationCommands == {"market", "limit", "oco", "stop-limit", "stop-market"}
\* the commands that talk to the gateway themselves
GatewayCommands == {"open-orders", "cancel-all", "inspect-pos", "filters", "auth-check"}

\* the commands whose --symbol is optional
SymbolOptional == {"open-orders", "cancel-all", "inspect-pos"}

\* --order-id (0: not given, or given as 0) and --client-order-id ("": not
\* given, or given empty) matter to cancel-order only; symbol is "" when the
\* option is left out
CliRequests ==
    [cmd : {"cancel-order"}, symbol : {"btcusdt"}, order_id : {0, 7},
     client_order_id : {"", "abc"}]
    \cup [cmd : OperationCommands \cup {"filters"},
          symbol : {"btcusdt"}, order_id : {0}, client_order_id : {""}]
    \cup [cmd : {"auth-check"}, symbol : {""}, order_id : {0}, client_order_id : {""}]
    \cup [cmd : SymbolOptional, symbol : {"", "btcusdt"}, order_id : {0},
          client_order_id : {""}]

\* most open orders a response of get_open_orders lists
MaxOpenOrders == 2

CliInit ==
    /\ req \in CliRequests
    /\ pc = "start"
    /\ err = "none"
    /\ calls = << >>
    /\ now = 0
    /\ started = 0
    /\ start = 0
    /\ orders = << >>
    /\ position = 0
    /\ filters = [tickSize |-> Dec(0, 0), stepSize |-> Dec(0, 0)]
    /\ qty_dec = Dec(0, 0)
    /\ entry_resp = NoResp
    /\ entry_final = NoResp
    /\ leg_qty = Dec(0, 0)
    /\ prefer_reduce = FALSE
    /\ tp_resp = NoResp
    /\ sl_resp = NoResp
    /\ tp_o = NoResp
    /\ winner = "none"
    /\ result = NoResult
    /\ OthersIdle

\* the variables the command line does not use
notCliVars == << req, now, started, start, orders, position, filters, qty_dec,
                 entry_resp, entry_final, leg_qty, prefer_reduce, tp_resp, sl_resp,
                 tp_o, winner, result, current, slice_no, results, price_dec >>

\* the command ends: err is the exception it caught ("none": none)
Exit(code, caught) == pc' = "exited" /\ exit_code' = code /\ err' = caught

\* market, limit, oco, stop-limit, stop-market (lines 22-26, 35-39, 155-168,
\* 191-197, 208-214): the wrapped function returns, or raises and the command
\* exits with 1
CliOperation ==
    /\ pc = "start"
    /\ req.cmd \in OperationCommands
    /\ \/ Exit(0, "none")
       \/ \E e \in {"ValueError", "TransportError", "HTTPError", "RuntimeError"} : Exit(1, e)
    /\ UNCHANGED calls
    /\ UNCHANGED notCliVars

\* cancel-order, lines 89-91: neither id given; the other commands go on to
\* construct the client
CliArguments ==
    /\ pc = "start"
    /\ req.cmd \notin OperationCommands
    /\ IF req.cmd = "cancel-order" /\ req.order_id = 0 /\ req.client_order_id = ""
       THEN Exit(2, "none")
       ELSE pc' = "client" /\ UNCHANGED << exit_code, err >>
    /\ UNCHANGED calls
    /\ UNCHANGED notCliVars

\* BinanceFuturesClient(...): the time-sync request, its failure swallowed
CliNewClient ==
    /\ pc = "client"
    /\ calls' = Append(calls, PlainCall("time", "any"))
    /\ pc' = "request"
    /\ UNCHANGED << exit_code, err >>
    /\ UNCHANGED notCliVars

\* a cancel_order request of the command line
CliCancelCall(order_id, client_order_id, res) ==
    [op |-> "cancel_order", orderId |-> order_id,
     clientOrderId |-> IF order_id # 0 THEN "" ELSE client_order_id, res |-> res]

\* lines 73 and 102: "Unknown order sent" in msg or "-2011" in msg or "400"
\* in msg.  The text of an HTTP 400 rejection always has "400"; the text of a
\* transport failure quotes the URL with its timestamp and signature, which
\* may hold these digits
TreatedAsCancelled(failure, urlHas400) == failure = "REJECTED" \/ urlHas400

\* cancel-order, lines 93-108
CliCancelOrder ==
    /\ pc = "request"
    /\ req.cmd = "cancel-order"
    /\ \/ /\ calls' = Append(calls, CliCancelCall(req.order_id, req.client_order_id, "OK"))
          /\ Exit(0, "none")
       \/ \E failure \in Failures, urlHas400 \in BOOLEAN :
            /\ calls' = Append(calls, CliCancelCall(req.order_id, req.client_order_id, failure))
            /\ IF TreatedAsCancelled(failure, urlHas400)
               THEN Exit(0, Raised(failure))
               ELSE Exit(1, Raised(failure))
    /\ UNCHANGED notCliVars

\* auth-check, lines 173-179: a failure is printed and the function returns
CliAuthCheck ==
    /\ pc = "request"
    /\ req.cmd = "auth-check"
    /\ \/ /\ calls' = Append(calls, PlainCall("get_account", "OK"))
          /\ Exit(0, "none")
       \/ \E failure \in Failures :
            /\ calls' = Append(calls, PlainCall("get_account", failure))
            /\ Exit(0, Raised(failure))
    /\ UNCHANGED notCliVars

\* open-orders (lines 44-54), inspect-pos (113-128) and filters (133-142):
\* one request, its failure caught by the command; filters also fails on a
\* response without symbols
CliQuery ==
    /\ pc = "request"
    /\ req.cmd \in {"open-orders", "inspect-pos", "filters"}
    /\ LET op == CASE req.cmd = "open-orders" -> "get_open_orders"
                   [] req.cmd = "inspect-pos" -> "get_account"
                   [] OTHER                   -> "exchangeInfo"
       IN  \/ \E empty \in BOOLEAN :
                /\ calls' = Append(calls, PlainCall(op, "OK"))
                /\ IF req.cmd = "filters" /\ empty
                   THEN Exit(1, "IndexError")
                   ELSE Exit(0, "none")
           \/ \E failure \in Failures :
                /\ calls' = Append(calls, PlainCall(op, failure))
                /\ Exit(1, Raised(failure))
    /\ UNCHANGED notCliVars

\* the cancel_order requests of cancel-all for the listed orders, with the
\* outcome of each
RECURSIVE CancelEach(_, _)
CancelEach(outcomes, k) ==
    IF k > Len(outcomes) THEN << >>
    ELSE << CliCancelCall(k, "", outcomes[k]) >> \o CancelEach(outcomes, k + 1)

\* cancel-all, lines 59-82: the open orders are fetched and cancelled one by
\* one; a cancellation that fails is counted and the loop goes on
CliCancelAll ==
    /\ pc = "request"
    /\ req.cmd = "cancel-all"
    /\ \/ \E failure \in Failures :
            /\ calls' = Append(calls, PlainCall("get_open_orders", failure))
            /\ Exit(1, Raised(failure))
       \/ \E n \in 0..MaxOpenOrders :
            \E outcomes \in [1..n -> {"OK"} \cup Failures] :
                /\ calls' = Append(calls, PlainCall("get_open_orders", "OK"))
                              \o CancelEach(outcomes, 1)
                /\ IF \E k \in 1..n : outcomes[k] \in Failures
                   THEN Exit(0, Raised(outcomes[CHOOSE k \in 1..n : outcomes[k] \in Failures]))
                   ELSE Exit(0, "none")
    /\ UNCHANGED notCliVars

CliNext ==
    \/ CliOperation
    \/ CliArguments
    \/ CliNewClient
    \/ CliCancelOrder
    \/ CliAuthCheck
    \/ CliQuery
    \/ CliCancelAll

CliSpec == CliInit /\ [][CliNext]_vars

(***************************************************************************)
(* The rounding helpers of src/src/utils.py on their own: RoundSpec        *)
(* applies round_down_qty or round_price_to_tick to one input.             *)
(***************************************************************************)
\* positive quantities and prices, as the floats the helpers are called with
NumberInputs ==
    {Dec(13, 3), Dec(2, 1), Dec(25, 2), Dec(1, 0), Dec(17, 1), Dec(73, 1), Dec(12, 0),
     Dec(1057, 1)}

\* stepSize and tickSize as parsed from the metadata: "0", "0.1", "0.01",
\* "0.100", "0.005", "0.5", "1", "5"
SizeInputs ==
    {Dec(0, 0), Dec(1, 1), Dec(1, 2), Dec(100, 3), Dec(5, 3), Dec(5, 1), Dec(1, 0),
     Dec(5, 0)}

RoundRequests ==
    [fn : {"round_down_qty", "round_price_to_tick"}, x : NumberInputs, by : SizeInputs]

RoundInit ==
    /\ req \in RoundRequests
    /\ pc = "start"
    /\ err = "none"
    /\ calls = << >>
    /\ now = 0
    /\ started = 0
    /\ start = 0
    /\ orders = << >>
    /\ position = 0
    /\ filters = [tickSize |-> Dec(0, 0), stepSize |-> Dec(0, 0)]
    /\ qty_dec = Dec(0, 0)
    /\ entry_resp = NoResp
    /\ entry_final = NoResp
    /\ leg_qty = Dec(0, 0)
    /\ prefer_reduce = FALSE
    /\ tp_resp = NoResp
    /\ sl_resp = NoResp
    /\ tp_o = NoResp
    /\ winner = "none"
    /\ result = NoResult
    /\ OthersIdle

\* the variables the helpers do not use
notRoundVars == << req, err, calls, now, started, start, orders, position, filters,
                   entry_resp, entry_final, leg_qty, prefer_reduce, tp_resp, sl_resp,
                   tp_o, winner, result, current, slice_no, results, exit_code >>

\* qty_dec = round_down_qty(qty, step)
RoundDownQty ==
    /\ pc = "start"
    /\ req.fn = "round_down_qty"
    /\ qty_dec' = round_down_qty(req.x, req.by)
    /\ pc' = "rounded"
    /\ UNCHANGED price_dec
    /\ UNCHANGED notRoundVars

\* the helper applied to its own result, passed as a float as its callers do
RoundDownQtyAgain ==
    /\ pc = "rounded"
    /\ req.fn = "round_down_qty"
    /\ qty_dec' = round_down_qty(Float(qty_dec), req.by)
    /\ pc' = "again"
    /\ UNCHANGED price_dec
    /\ UNCHANGED notRoundVars

\* price_dec = round_price_to_tick(price, tick)
RoundPriceToTick ==
    /\ pc = "start"
    /\ req.fn = "round_price_to_tick"
    /\ price_dec' = round_price_to_tick(req.x, req.by)
    /\ pc' = "rounded"
    /\ UNCHANGED qty_dec
    /\ UNCHANGED notRoundVars

RoundNext ==
    \/ RoundDownQty
    \/ RoundDownQtyAgain
    \/ RoundPriceToTick

RoundSpec == RoundInit /\ [][RoundNext]_vars

(***************************************************************************)
(* Plain orders: place_market_order of src/src/market_orders.py and        *)
(* place_limit_order of src/src/limit_orders.py.  One run of one of them   *)
(* is one behaviour of OrderSpec.                                          *)
(***************************************************************************)
\* a LOT_SIZE filter that also carries minQty
LotSizeMin(step, minQty) ==
    [filterType |-> "LOT_SIZE", tickSize |-> Absent, stepSize |-> step, minQty |-> minQty]

\* tick 0.5, step 0.1, minQty 0.100
CoarseInfo == [symbol |-> "BTCUSDT",
               filters |-> << PriceFilter(Dec(5, 1)), LotSizeMin(Dec(1, 1), Dec(100, 3)) >>]
\* tick 0.01, step 0.01, minQty 0.5
FineInfo == [symbol |-> "BTCUSDT",
             filters |-> << LotSizeMin(Dec(1, 2), Dec(5, 1)), PriceFilter(Dec(1, 2)) >>]
\* tick 0.5, step 0.5, minQty 0.001
HalfInfo == [symbol |-> "BTCUSDT",
             filters |-> << PriceFilter(Dec(5, 1)), LotSizeMin(Dec(5, 1), Dec(1, 3)) >>]
\* no LOT_SIZE filter: step and minQty stay zero
NoLotInfo == [symbol |-> "BTCUSDT", filters |-> << PriceFilter(Dec(1, 2)) >>]

\* the JSON of an exchangeInfo response: the "symbols" key may be missing,
\* and the list may be empty
OrderInfos ==
    { [hasSymbols |-> FALSE, symbols |-> << >>], [hasSymbols |-> TRUE, symbols |-> << >>] }
    \cup [hasSymbols : {TRUE},
          symbols : { << CoarseInfo >>, << FineInfo >>, << HalfInfo >>, << NoLotInfo >> }]

\* f["minQty"] of parse_symbol_filters (utils.py lines 31 and 38-40)
RECURSIVE ParseMinQty(_, _)
ParseMinQty(fs, m) ==
    IF fs = << >> THEN m
    ELSE ParseMinQty(Tail(fs), IF Head(fs).filterType = "LOT_SIZE" THEN Head(fs).minQty ELSE m)

OrderQtyInputs   == {NotANumber, Dec(1, 3), Dec(25, 2), Dec(137, 2)}
OrderPriceInputs == {Dec(0, 0), Dec(1057, 1), Dec(10, 0)}

\* the arguments of place_market_order ("MARKET", no price) and of
\* place_limit_order ("LIMIT")
OrderRequests ==
    [kind : {"MARKET"}, side : SideInputs, qty : OrderQtyInputs, price : {Absent}]
    \cup [kind : {"LIMIT"}, side : SideInputs, qty : OrderQtyInputs, price : OrderPriceInputs]

OrderInit ==
    /\ req \in OrderRequests
    /\ pc = "start"
    /\ err = "none"
    /\ calls = << >>
    /\ now = 0
    /\ started = 0
    /\ start = 0
    /\ orders = << >>
    /\ position = 0
    /\ filters = [tickSize |-> Dec(0, 0), stepSize |-> Dec(0, 0)]
    /\ qty_dec = Dec(0, 0)
    /\ entry_resp = NoResp
    /\ entry_final = NoResp
    /\ leg_qty = Dec(0, 0)
    /\ prefer_reduce = FALSE
    /\ tp_resp = NoResp
    /\ sl_resp = NoResp
    /\ tp_o = NoResp
    /\ winner = "none"
    /\ result = NoResult
    /\ OthersIdle

\* the variables the plain orders do not use
notOrderVars == << now, started, start, orders, position, entry_resp, entry_final,
                   leg_qty, prefer_reduce, tp_resp, sl_resp, tp_o, winner, current,
                   slice_no, results, exit_code >>

\* market_orders.py lines 9-10, limit_orders.py lines 9-11
OrderValidate ==
    /\ pc = "start"
    /\ IF \/ validate_side(req.side) = "ValueError"
          \/ validate_positive_number(req.qty) = ValueError
          \/ req.kind = "LIMIT" /\ validate_positive_number(req.price) = ValueError
       THEN Raise("ValueError")
       ELSE pc' = "client" /\ err' = err
    /\ UNCHANGED << req, calls, filters, qty_dec, price_dec, result >>
    /\ UNCHANGED notOrderVars

\* market_orders.py line 13, limit_orders.py line 14:
\* not info or "symbols" not in info or not info["symbols"]
NoSymbolInfo(info) == ~info.hasSymbols \/ info.symbols = << >>

\* variant: a quantity below minQty is sent as it is
NeverRaised(q, minQty) == q

\* market_orders.py lines 19-20, limit_orders.py lines 22-23
RaiseToMin(q, minQty) == IF DecLt(q, minQty) THEN minQty ELSE q

\* market_orders.py lines 15-21, limit_orders.py lines 16-25: the filters of
\* symbols[0], the quantity raised to minQty and rounded to the step, the
\* price rounded to the tick
OrderPrepared(symbol_info) ==
    LET f     == parse_symbol_filters(symbol_info)
        qty_f == validate_positive_number(req.qty)
        q     == RaiseToMin(DecimalOfStr(qty_f), ParseMinQty(symbol_info.filters, Dec(0, 0)))
    IN  /\ filters' = [tickSize |-> f.tickSize, stepSize |-> f.stepSize,
                       minQty |-> ParseMinQty(symbol_info.filters, Dec(0, 0))]
        /\ qty_dec' = round_down_qty(Float(q), f.stepSize)
        /\ price_dec' = IF req.kind = "LIMIT"
                        THEN round_price_to_tick(validate_positive_number(req.price),
                                                 f.tickSize)
                        ELSE price_dec
        /\ pc' = "order_place"
        /\ err' = err

\* variant: a response without symbols is taken for a symbol without filters
OrderGetExchangeInfoLenient ==
    /\ pc = "info"
    /\ \/ /\ calls' = Append(calls, PlainCall("exchangeInfo", "ERR"))
          /\ Raise("TransportError")
          /\ UNCHANGED << filters, qty_dec, price_dec >>
       \/ \E info \in OrderInfos :
            /\ calls' = Append(calls, InfoCall(NoSymbolInfo(info)))
            /\ IF NoSymbolInfo(info)
               THEN OrderPrepared([symbol |-> "", filters |-> << >>])
               ELSE OrderPrepared(info.symbols[1])
    /\ UNCHANGED << req, result >>
    /\ UNCHANGED notOrderVars

\* market_orders.py lines 12-21, limit_orders.py lines 13-25
OrderGetExchangeInfo ==
    /\ pc = "info"
    /\ \/ /\ calls' = Append(calls, PlainCall("exchangeInfo", "ERR"))
          /\ Raise("TransportError")
          /\ UNCHANGED << filters, qty_dec, price_dec >>
       \/ \E info \in OrderInfos :
            /\ calls' = Append(calls, InfoCall(NoSymbolInfo(info)))
            /\ IF NoSymbolInfo(info)
               THEN Raise("SymbolInfoError") /\ UNCHANGED << filters, qty_dec, price_dec >>
               ELSE OrderPrepared(info.symbols[1])
    /\ UNCHANGED << req, result >>
    /\ UNCHANGED notOrderVars

\* the placement request of a plain order as the exchange sees it
PlaceCall(res) ==
    [op |-> "place", type |-> req.kind, side |-> validate_side(req.side),
     qty |-> Float(qty_dec),
     price |-> IF req.kind = "LIMIT" THEN Float(price_dec) ELSE Absent,
     res |-> res]

\* market_orders.py lines 22-33, limit_orders.py lines 26-37
PlaceOrder ==
    /\ pc = "order_place"
    /\ \/ \E failure \in Failures :
            /\ calls' = Append(calls, PlaceCall(failure))
            /\ Raise(Raised(failure))
            /\ UNCHANGED result
       \/ /\ calls' = Append(calls, PlaceCall("OK"))
          /\ pc' = "done"
          /\ err' = err
          /\ result' = [returned |-> TRUE, orderId |-> 1, status |-> "NEW"]
    /\ UNCHANGED << req, filters, qty_dec, price_dec >>
    /\ UNCHANGED notOrderVars

OrderNext ==
    \/ OrderValidate
    \/ NewClient
    \/ OrderGetExchangeInfo
    \/ PlaceOrder

OrderSpec == OrderInit /\ [][OrderNext]_vars

(***************************************************************************)
(* The five order operations together: a behaviour of OperationsSpec is    *)
(* one run of place_oco, of a stop order or of a plain order.  The         *)
(* arguments tell which function runs.                                     *)
(***************************************************************************)
IsOco   == "detach" \in DOMAIN req
IsStop  == "stop_price" \in DOMAIN req
IsOrder == "price" \in DOMAIN req

OperationsInit == Init \/ StopInit \/ OrderInit

OperationsNext ==
    \/ IsOco /\ Next
    \/ IsStop /\ StopNext
    \/ IsOrder /\ OrderNext

OperationsSpec == OperationsInit /\ [][OperationsNext]_vars

(***************************************************************************)
(* Properties.                                                             *)
(***************************************************************************)
Ended == pc \in {"done", "raised"}

IsLegPlacement(c) == c.op = "place" /\ c.role \in Legs
LegPlacements == { i \in 1..Len(calls) : IsLegPlacement(calls[i]) }
CallsOf(op) == { i \in 1..Len(calls) : calls[i].op = op }
EntryId == IdOf("entry")

\* C1: in non-detached mode an exit-leg placement request (with or without
\* reduce-only) is only ever sent after a get_order poll of the entry order
\* has returned FILLED.
C1_LegsOnlyAfterFilledPoll ==
    ~req.detach =>
        \A i \in LegPlacements :
            \E j \in 1..(i - 1) :
                /\ calls[j].op = "get_order"
                /\ calls[j].role = "entry"
                /\ calls[j].res = "FILLED"

C1_Witness ==
    /\ ~req.detach
    /\ Cardinality(LegPlacements) >= 2
    /\ \E i \in LegPlacements : calls[i].reduceOnly

\* C2: in non-detached mode, when the poller hands back an entry order that
\* is not FILLED (the wait timed out, whatever the status), place_oco ends
\* with the entry-not-filled error, and no exit-leg placement, position query
\* or cancellation has been sent.
C2_UnfilledEntryFails ==
    (~req.detach /\ entry_final # NoResp /\ entry_final.status # "FILLED") =>
        /\ pc \in {"poll_ret", "raised"}
        /\ pc = "raised" => err = "EntryNotFilled"
        /\ LegPlacements = {}
        /\ CallsOf("get_account") = {}
        /\ CallsOf("cancel_order") = {}

C2_Witness ==
    /\ ~req.detach
    /\ pc = "raised"
    /\ err = "EntryNotFilled"
    /\ entry_final.status = "PARTIALLY_FILLED"
    /\ Cardinality(CallsOf("get_order")) >= 2

\* C3: in non-detached mode, when the entry is seen FILLED with executed
\* quantity Q', every exit-leg request carries roundDown(Q', step), which is
\* never more than Q' and so differs from roundDown(Q, step) whenever that is
\* larger; only when the response has no executedQty is the order's original
\* quantity used instead.
C3_LegQtyIsExecutedQty ==
    ~req.detach =>
        \A i \in LegPlacements :
            LET executed == QtyText(orders[EntryId].executedQty)
                original == QtyText(orders[EntryId].origQty)
                sized    == IF entry_final.executedQty # Absent THEN executed ELSE original
            IN  /\ calls[i].qty = Float(round_down_qty(Float(sized), filters.stepSize))
                /\ entry_final.executedQty # Absent => DecLe(calls[i].qty, executed)

C3_Witness ==
    /\ ~req.detach
    /\ Cardinality(LegPlacements) >= 2
    /\ entry_final.executedQty # Absent
    /\ orders[EntryId].executedQty < orders[EntryId].origQty
    /\ \A i \in LegPlacements :
          /\ DecLt(calls[i].qty, QtyText(orders[EntryId].executedQty))
          /\ DecLt(calls[i].qty, qty_dec)

\* the request this step sends, when it sends one
Sends == Len(calls') = Len(calls) + 1
Sent == calls'[Len(calls')]

\* C4: detached or not, an exit-leg request carries the quantity the entry
\* order has executed at the moment the request is sent, rounded down to the
\* step.
C4_LegQtyIsExecutedAtSubmission ==
    [][ (Sends /\ IsLegPlacement(Sent) /\ Sent.res = "OK") =>
            Sent.qty = Float(round_down_qty(Float(QtyText(orders[EntryId].executedQty)),
                                            filters.stepSize)) ]_vars

\* an iteration of the race: the take-profit fetch at i, the stop-loss fetch
\* at i + 1, with the statuses seen
RaceIteration(i, tpSeen, slSeen) ==
    /\ i + 1 <= Len(calls)
    /\ calls[i].op = "get_order" /\ calls[i].role = "tp" /\ calls[i].res = tpSeen
    /\ calls[i + 1].op = "get_order" /\ calls[i + 1].role = "sl" /\ calls[i + 1].res = slSeen

\* after the iteration at i showed w filled alone: w is the winner, the one
\* cancellation goes to the other leg and nothing is sent after it
ResolvedFor(i, w) ==
    /\ pc \in {"cancel", "done"}
    /\ winner = w
    /\ pc = "cancel" => Len(calls) = i + 1
    /\ pc = "done" =>
          /\ result.returned /\ result.winner = w
          /\ Len(calls) = i + 2
          /\ CallsOf("cancel_order") = {i + 2}
          /\ calls[i + 2].role = IF w = "TP" THEN "sl" ELSE "tp"

\* C5: when a race iteration fetches both legs and sees one of them FILLED
\* and the other not, the result names the filled leg as winner, exactly one
\* cancel_order request is sent, it names the other leg, and no poll follows.
C5_FirstFilledLegWins ==
    \A i \in 1..Len(calls) :
        /\ RaceIteration(i, "FILLED", "UNFILLED") => ResolvedFor(i, "TP")
        /\ RaceIteration(i, "UNFILLED", "FILLED") => ResolvedFor(i, "SL")

C5_Witness ==
    /\ pc = "done"
    /\ \E i, j \in 1..Len(calls) :
          /\ j < i
          /\ RaceIteration(j, "UNFILLED", "UNFILLED")
          /\ RaceIteration(i, "UNFILLED", "FILLED")
    /\ result.winner = "SL"
    /\ orders[IdOf("tp")].status = "CANCELED"

\* C6: a detached run returns after one entry placement and the placement of
\* both legs, without any get_order or cancel_order request, and its result
\* is flagged detached and names no winner.
C6_DetachPlacesAndReturns ==
    (req.detach /\ pc = "done") =>
        /\ Cardinality({ i \in CallsOf("place") : calls[i].role = "entry" }) = 1
        /\ \A leg \in Legs :
              Cardinality({ i \in CallsOf("place") :
                              calls[i].role = leg /\ calls[i].res = "OK" }) = 1
        /\ CallsOf("get_order") = {}
        /\ CallsOf("cancel_order") = {}
        /\ result.returned /\ result.detached /\ result.winner = "none"

C6_Witness ==
    /\ req.detach
    /\ pc = "done"
    /\ orders[EntryId].status = "NEW"
    /\ Len(orders) = 3

\* C7: the poller returns only after a fetch; the first fetch that shows
\* FILLED returns that order at once; a fetch that shows any other status
\* returns it, without raising, once the elapsed time exceeds the timeout and
\* leads to another round of the loop until then.
C7_PollerContract ==
    [][ (pc = "poll" /\ pc' # "poll") =>
            /\ Sends /\ Sent.op = "get_order" /\ Sent.role = "entry"
            /\ Sent.res = "FILLED" =>
                  /\ pc' = "poll_ret" /\ err' = "none"
                  /\ entry_final'.status = "FILLED"
            /\ (Sent.res = "UNFILLED" /\ now' - started > req.wait_timeout) =>
                  /\ pc' = "poll_ret" /\ err' = "none"
                  /\ entry_final'.status = orders[EntryId].status
            /\ (Sent.res = "UNFILLED" /\ now' - started <= req.wait_timeout) =>
                  /\ pc' = "poll_sleep"
                  /\ entry_final' = NoResp ]_vars

C7_Witness ==
    /\ pc = "poll_ret"
    /\ err = "none"
    /\ entry_final.status = "EXPIRED"
    /\ Cardinality(CallsOf("get_order")) >= 2

\* a loop goes round again only if its timeout had not elapsed at its test
SleepsOnlyInTime ==
    /\ pc = "poll_sleep" => now - started <= req.wait_timeout
    /\ pc = "race_sleep" => now - start <= req.wait_timeout

\* C8: the entry wait and the race loop each end with the first iteration
\* whose test finds the timeout elapsed, and place_oco always ends, by a
\* return or an exception, also when no order ever fills.
C8_PollingLoopsEnd == [] SleepsOnlyInTime /\ <> Ended

C8_Witness ==
    /\ pc = "done"
    /\ ~req.detach
    /\ result.winner = "none"
    /\ orders[IdOf("tp")].status = "NEW"
    /\ orders[IdOf("sl")].status = "NEW"
    /\ now - start > req.wait_timeout
    /\ Cardinality({ i \in CallsOf("get_order") : calls[i].role = "sl" }) >= 2

\* C9: a validation failure of the request (side, qty, take-profit price,
\* stop-loss price, LIMIT entry without entry price) is raised before any
\* request has been sent.
C9_ValidationBeforeNetwork ==
    (pc = "raised" /\ err = "ValueError") => calls = << >>

\* C10: when place_oco fails because the entry did not fill in time, no order
\* of the run is open on the exchange and nothing of the entry has executed.
C10_NothingCommitted ==
    (pc = "raised" /\ err = "EntryNotFilled") =>
        \A id \in 1..Len(orders) :
            /\ orders[id].status \notin OpenStatuses
            /\ orders[id].executedQty = 0

\* the requests that failed in transport: placements, order queries and account
\* queries that did not get through
FailedRequests ==
    { i \in 1..Len(calls) :
        calls[i].op \in {"place", "get_order", "get_account"} /\ calls[i].res = "ERR" }

\* C11: a transport failure of an order placement, order query or account
\* query is propagated to the caller of place_oco and no request follows it;
\* in particular a leg placement that failed in transport is not followed by
\* another leg placement.
C11_TransportFailurePropagates ==
    \A i \in FailedRequests :
        /\ i = Len(calls)
        /\ Ended => (pc = "raised" /\ err = "TransportError")

\* C12: when the cancellation of the losing leg fails, place_oco still returns
\* with the winner reported, that cancellation is the only one and the last
\* request, and the winning leg is FILLED, so that at most one leg (the loser)
\* is still open.
C12_CancelFailureSwallowed ==
    \A i \in CallsOf("cancel_order") :
        calls[i].res = "ERR" =>
            /\ pc = "done" /\ err = "none"
            /\ result.returned /\ result.winner \in {"TP", "SL"}
            /\ CallsOf("cancel_order") = {i}
            /\ i = Len(calls)
            /\ orders[IdOf(IF result.winner = "TP" THEN "tp" ELSE "sl")].status = "FILLED"
            /\ Cardinality({ leg \in Legs : orders[IdOf(leg)].status \in OpenStatuses }) <= 1

C12_Witness ==
    /\ pc = "done"
    /\ result.winner = "TP"
    /\ calls[Len(calls)].op = "cancel_order"
    /\ calls[Len(calls)].res = "ERR"
    /\ orders[IdOf("sl")].status = "NEW"

\* C13: detached or not, every exit-leg placement attempt, the attempt
\* without reduce-only after a failed reduce-only attempt included, is on the
\* side opposite to the entry: SELL for a BUY entry, BUY for a SELL entry.
C13_LegSideOpposite ==
    \A i \in LegPlacements :
        \/ Upper(req.side) = "BUY" /\ calls[i].side = "SELL"
        \/ Upper(req.side) = "SELL" /\ calls[i].side = "BUY"

C13_Witness ==
    /\ req.detach
    /\ req.side = "sell"
    /\ pc = "done"
    /\ \E i \in LegPlacements :
          /\ i > 1
          /\ ~calls[i].reduceOnly /\ calls[i].res = "OK"
          /\ calls[i - 1].reduceOnly /\ calls[i - 1].res = "REJECTED"
          /\ calls[i - 1].role = calls[i].role

\* a decimal in units of 0.0001
Tenthousandths(x) == x.c * 10^(4 - x.d)

\* C14: the stop validator lets a BUY stop pass exactly when stopPrice >
\* currentPrice + buffer and a SELL stop exactly when stopPrice <
\* currentPrice - buffer, where buffer is the tick, or 0.0001 when the tick
\* is zero; when it rejects, place_stop_limit and place_stop_market end with
\* the ValueError and send no placement request.
C14_StopValidator ==
    /\ [][ (pc = "stop_check" /\ Sends /\ Sent.res = "OK") =>
              LET buffer == IF filters.tickSize.c = 0 THEN 1
                            ELSE Tenthousandths(filters.tickSize)
                  stop   == Tenthousandths(stop_price_dec)
                  market == Tenthousandths(current')
                  passes == IF Upper(req.side) = "BUY"
                            THEN stop > market + buffer
                            ELSE stop < market - buffer
              IN  /\ passes => (pc' = "stop_place" /\ err' = "none")
                  /\ ~passes => (pc' = "raised" /\ err' = "ValueError") ]_vars
    /\ [] ((pc = "raised" /\ err = "ValueError") => CallsOf("place") = {})

\* a BUY stop one buffer above the market is rejected, here with the buffer
\* of a symbol without tick
C14_Witness ==
    /\ pc = "raised"
    /\ err = "ValueError"
    /\ Upper(req.side) = "BUY"
    /\ filters.tickSize.c = 0
    /\ current = Dec(100, 2)
    /\ stop_price_dec = Dec(10001, 4)

\* C15: a run of execute_twap with parts >= 1 in which the exchange refuses
\* no order has, when it returns, sent exactly `parts` MARKET orders, each for
\* the quantity total_qty / parts.
C15_TwapSubmitsParts ==
    (pc = "done" /\ \A i \in CallsOf("place") : calls[i].res = "OK") =>
        /\ Cardinality(CallsOf("place")) = req.parts
        /\ \A i \in CallsOf("place") :
              /\ calls[i].type = "MARKET"
              /\ calls[i].qty.num * (10^req.total_qty.d) * req.parts
                    = req.total_qty.c * calls[i].qty.den

\* C16: a subcommand exits with status 0 only when nothing failed and with
\* status 1 whenever it caught a failure (a failed account request of
\* auth-check and a failed cancel request of cancel-order included);
\* cancel-order without order-id and client-order-id exits with status 2
\* before any gateway request.
C16_ExitStatus ==
    pc = "exited" =>
        /\ exit_code = 0 => err = "none"
        /\ err # "none" => exit_code = 1
        /\ (req.cmd = "cancel-order" /\ req.order_id = 0 /\ req.client_order_id = "")
              => (exit_code = 2 /\ calls = << >>)

\* C17: for every positive quantity and every step > 0, powers of ten or
\* not, round_down_qty(qty, step) is at most qty and an exact integer multiple
\* of step, and applying it to its own result changes nothing.
C17_RoundDownQty ==
    /\ [] ((req.fn = "round_down_qty" /\ pc = "rounded" /\ req.by.c > 0) =>
              /\ Tenthousandths(qty_dec) <= Tenthousandths(req.x)
              /\ Tenthousandths(qty_dec) % Tenthousandths(req.by) = 0)
    /\ [][ (req.fn = "round_down_qty" /\ pc = "rounded" /\ req.by.c > 0) =>
              Tenthousandths(qty_dec') = Tenthousandths(qty_dec) ]_vars

\* C18: for every positive price and every tick > 0, round_price_to_tick
\* (price, tick) is at most price, an exact integer multiple of tick and less
\* than one tick below price; with tick zero it is the price itself.
C18_RoundPriceToTick ==
    (req.fn = "round_price_to_tick" /\ pc = "rounded") =>
        IF req.by.c > 0
        THEN /\ Tenthousandths(price_dec) <= Tenthousandths(req.x)
             /\ Tenthousandths(price_dec) % Tenthousandths(req.by) = 0
             /\ Tenthousandths(req.x) - Tenthousandths(price_dec) < Tenthousandths(req.by)
        ELSE Tenthousandths(price_dec) = Tenthousandths(req.x)

\* 1.7 at tick 0.5 becomes 1.5
C18_Witness ==
    /\ req.fn = "round_price_to_tick"
    /\ pc = "rounded"
    /\ req.x = Dec(17, 1)
    /\ req.by = Dec(5, 1)
    /\ price_dec = Dec(15, 1)

\* the placement attempts of one leg, and the first of a set of them
LegAttempts(leg) == { i \in LegPlacements : calls[i].role = leg }
First(A) == CHOOSE i \in A : \A j \in A : i <= j

\* C19: per exit leg, with the reduce-only preference the first attempt
\* carries reduce-only and, when the exchange rejects it, exactly one more
\* attempt follows, without reduce-only, whose response or error is the
\* leg's; without the preference there is one attempt, without reduce-only.
\* No leg has more than two attempts and a rejected reduce-only attempt alone
\* does not end the run.
C19_ReduceOnlyFallback ==
    \A leg \in Legs :
        LET A == LegAttempts(leg) IN
        A # {} =>
            LET first  == First(A)
                rest   == A \ {first}
                second == first + 1
                between == pc = (IF leg = "tp" THEN "tp_fallback" ELSE "sl_fallback")
                resp   == IF leg = "tp" THEN tp_resp ELSE sl_resp
            IN  /\ Cardinality(A) <= 2
                /\ calls[first].reduceOnly = prefer_reduce
                /\ ~prefer_reduce => rest = {}
                /\ calls[first].res = "OK" => rest = {}
                /\ (prefer_reduce /\ calls[first].res = "REJECTED") =>
                      IF between THEN rest = {} /\ err = "none"
                      ELSE /\ rest = {second}
                           /\ ~calls[second].reduceOnly
                           /\ calls[second].res = "OK" =>
                                 /\ resp.orderId = IdOf(leg)
                                 /\ ~orders[IdOf(leg)].reduceOnly
                                 /\ pc = "raised" => Len(calls) > second
                           /\ calls[second].res = "REJECTED" =>
                                 (pc = "raised" /\ err = "HTTPError" /\ Len(calls) = second)
                           /\ calls[second].res = "ERR" =>
                                 (pc = "raised" /\ err = "TransportError" /\ Len(calls) = second)

C19_Witness ==
    /\ prefer_reduce
    /\ pc = "race"
    /\ Cardinality(LegAttempts("tp")) = 2
    /\ calls[First(LegAttempts("tp"))].res = "REJECTED"
    /\ Cardinality(LegAttempts("sl")) = 1
    /\ orders[IdOf("sl")].reduceOnly
    /\ ~orders[IdOf("tp")].reduceOnly

\* whether a position amount corroborates the entry of the request
Corroborates(amt) ==
    \/ Upper(req.side) = "BUY" /\ amt.c > 0
    \/ Upper(req.side) = "SELL" /\ amt.c < 0

\* C20: the position is fetched once per bracket, before the legs; a leg
\* attempt carries reduce-only only if the fetched amount is strictly positive
\* for a BUY entry or strictly negative for a SELL entry, and the first
\* attempts of both legs carry the same flag.
C20_ReduceOnlyOnlyIfCorroborated ==
    /\ Cardinality(CallsOf("get_account")) <= 1
    /\ \A i \in LegPlacements :
          \E a \in CallsOf("get_account") :
              /\ a < i
              /\ calls[a].res = "OK"
              /\ calls[i].reduceOnly => Corroborates(calls[a].qty)
              /\ i = First(LegAttempts(calls[i].role)) =>
                    calls[i].reduceOnly = Corroborates(calls[a].qty)

\* a BUY entry on an account that is still short when the position is read
C20_Witness ==
    /\ Upper(req.side) = "BUY"
    /\ \E a \in CallsOf("get_account") : calls[a].res = "OK" /\ calls[a].qty.c < 0
    /\ Cardinality({ i \in LegPlacements : calls[i].res = "OK" }) = 2
    /\ \A i \in LegPlacements : ~calls[i].reduceOnly

\* the absolute size of a signed position
Magnitude(n) == IF n < 0 THEN -n ELSE n

\* C21: whenever an exit leg of the bracket executes, whatever the account
\* held before the run and however the exchange behaved, the absolute size
\* of the account's position after the execution is not larger than before.
C21_ExitLegNeverEnlarges ==
    [][ \A id \in 1..Len(orders) :
            (orders[id].role \in Legs /\ orders'[id].executedQty > orders[id].executedQty)
                => Magnitude(position') <= Magnitude(position) ]_vars

\* the get_order requests for a leg
LegFetches(leg) == { i \in CallsOf("get_order") : calls[i].role = leg }

\* C22: every race iteration fetches the take-profit leg and then the
\* stop-loss leg, and tests the take-profit status first: when both legs are
\* seen FILLED in one iteration the winner reported is take-profit and the one
\* cancellation sent names the stop-loss order.
C22_TakeProfitTestedFirst ==
    /\ \A i \in LegFetches("sl") :
          i - 1 \in LegFetches("tp") /\ calls[i - 1].res # "ERR"
    /\ \A i \in LegFetches("tp") :
          calls[i].res # "ERR" =>
              IF i = Len(calls) THEN pc = "race_sl" ELSE i + 1 \in LegFetches("sl")
    /\ \A i \in 1..Len(calls) :
          RaceIteration(i, "FILLED", "FILLED") =>
              /\ pc \in {"cancel", "done"}
              /\ winner = "TP"
              /\ pc = "done" =>
                    /\ result.returned /\ result.winner = "TP"
                    /\ CallsOf("cancel_order") = {i + 2}
                    /\ calls[i + 2].role = "sl"

C22_Witness ==
    /\ pc = "done"
    /\ RaceIteration(Len(calls) - 2, "FILLED", "FILLED")
    /\ result.winner = "TP"
    /\ calls[Len(calls)].op = "cancel_order"
    /\ calls[Len(calls)].role = "sl"
    /\ orders[IdOf("sl")].status = "FILLED"

\* a leg order as the response of its placement showed it
AsPlaced(leg) ==
    [orderId |-> IdOf(leg), status |-> "NEW", executedQty |-> QtyText(0),
     origQty |-> QtyText(orders[IdOf(leg)].origQty)]

\* no fetch of the race has shown a leg FILLED
NoLegSeenFilled ==
    \A leg \in Legs : \A i \in LegFetches(leg) : calls[i].res # "FILLED"

\* C23: when the race iteration that finds waitTimeout elapsed has seen
\* neither leg FILLED, whatever else their statuses are (CANCELED, REJECTED
\* and EXPIRED included), place_oco returns without error, with no winner,
\* without any cancel_order request, and with both legs as their placement
\* responses showed them.
C23_InconclusiveRace ==
    /\ [][ (pc = "race_sl" /\ Sends /\ Sent.res = "UNFILLED"
              /\ calls[Len(calls)].res = "UNFILLED"
              /\ now' - start > req.wait_timeout) =>
                (pc' = "done" /\ err' = "none" /\ result'.returned) ]_vars
    /\ [] ((pc = "done" /\ ~req.detach /\ NoLegSeenFilled) =>
              /\ result.returned
              /\ result.winner = "none"
              /\ CallsOf("cancel_order") = {}
              /\ result.tp = AsPlaced("tp")
              /\ result.sl = AsPlaced("sl"))

C23_Witness ==
    /\ pc = "done"
    /\ ~req.detach
    /\ NoLegSeenFilled
    /\ result.winner = "none"
    /\ orders[IdOf("tp")].status = "EXPIRED"
    /\ orders[IdOf("sl")].status = "NEW"
    /\ result.tp.status = "NEW"
    /\ Cardinality(LegFetches("sl")) >= 2

\* C24: a round of the TWAP loop that is not the last is followed by one
\* wait of `interval` seconds before the next slice is attempted, whether its
\* slice was accepted or failed, and the last round is followed by no wait.
C24_TwapWaitsBetweenSlices ==
    [][ (pc = "slice" /\ slice_no' = slice_no + 1) =>
            now' = IF slice_no # req.parts THEN now + req.interval ELSE now ]_vars

\* C25: execute_twap goes through the slices 1..parts one by one whatever
\* fails on the way, raises only for arguments it refuses before the first
\* slice, and returns expected_slices = parts and executed_slices = the
\* number of accepted placements = the number of responses it kept, which is
\* at most parts.
C25_TwapNeverAborts ==
    /\ [][ (pc = "slice" /\ pc' = "slice") =>
              (slice_no <= req.parts /\ slice_no' = slice_no + 1) ]_vars
    /\ [] (pc = "raised" => (err = "ValueError" /\ slice_no = 0 /\ calls = << >>))
    /\ [] (pc = "done" =>
              /\ result.returned
              /\ slice_no = req.parts + 1
              /\ result.expected_slices = req.parts
              /\ result.executed_slices = Len(results)
              /\ result.executed_slices
                    = Cardinality({ i \in CallsOf("place") : calls[i].res = "OK" })
              /\ result.executed_slices <= result.expected_slices)

\* a run of three slices that all failed has returned
C25_Witness ==
    /\ pc = "done"
    /\ req.parts = 3
    /\ slice_no = 4
    /\ result.expected_slices = 3
    /\ result.executed_slices = 0

\* C26: when the metadata response has no symbol in it (the list empty or
\* missing), place_oco, place_stop_limit, place_stop_market,
\* place_market_order and place_limit_order end with the symbol-info error,
\* the metadata request is their last request and no placement request has
\* been sent.
C26_NoMetadataAborts ==
    \A i \in CallsOf("exchangeInfo") :
        calls[i].res = "NO_SYMBOLS" =>
            /\ pc = "raised"
            /\ err = "SymbolInfoError"
            /\ i = Len(calls)
            /\ CallsOf("place") = {}

C26_Witness ==
    /\ IsStop
    /\ req.kind = "STOP_MARKET"
    /\ pc = "raised"
    /\ err = "SymbolInfoError"
    /\ calls[Len(calls)].res = "NO_SYMBOLS"

\* the cancel_order request at i follows a race iteration in which the
\* other leg was the one found FILLED
CancelsLoserOfRace(i) ==
    /\ i >= 3
    /\ i - 2 \in LegFetches("tp")
    /\ i - 1 \in LegFetches("sl")
    /\ \/ calls[i].role = "sl" /\ calls[i - 2].res = "FILLED"
       \/ calls[i].role = "tp" /\ calls[i - 2].res = "UNFILLED" /\ calls[i - 1].res = "FILLED"

\* C27: place_oco sends at most one cancel_order request, in the race, right
\* after the iteration that found a leg FILLED, and for the other leg; a run
\* that ends in an exception after an order was accepted (a leg placement,
\* the position query or a race fetch failed) has sent no cancellation.
C27_CancelOnlyForLoser ==
    /\ Cardinality(CallsOf("cancel_order")) <= 1
    /\ \A i \in CallsOf("cancel_order") : CancelsLoserOfRace(i)
    /\ pc = "raised" => CallsOf("cancel_order") = {}

\* the stop-loss placement failed after the take-profit leg was accepted:
\* the filled entry and the open take-profit order are left behind
C27_Witness ==
    /\ pc = "raised"
    /\ Len(orders) = 2
    /\ orders[EntryId].status = "FILLED"
    /\ orders[IdOf("tp")].status = "NEW"
    /\ calls[Len(calls)].op = "place"
    /\ calls[Len(calls)].role = "sl"
    /\ calls[Len(calls)].res = "ERR"

\* C28: place_market_order and place_limit_order send at most one placement
\* request, exactly one when they return, and its quantity is the larger of
\* the requested quantity and minQty, cut down to the decimal places of step
\* as round_down_qty does: a request below minQty is sent as minQty, which is
\* more than was asked for; any other request is never sent larger than asked.
C28_PlainOrderQuantity ==
    LET requested == Tenthousandths(req.qty)
        minQty    == Tenthousandths(filters.minQty)
        larger    == IF requested < minQty THEN minQty ELSE requested
        unit      == IF filters.stepSize.c = 0 THEN 1 ELSE 10^(4 - filters.stepSize.d)
    IN  /\ Cardinality(CallsOf("place")) <= 1
        /\ pc = "done" => Cardinality(CallsOf("place")) = 1
        /\ \A i \in CallsOf("place") :
              /\ calls[i].type = req.kind
              /\ Tenthousandths(calls[i].qty) = larger - (larger % unit)
              /\ requested >= minQty => Tenthousandths(calls[i].qty) <= requested

\* 0.001 asked for where minQty is 0.5: 0.5 is sent
C28_Witness ==
    /\ pc = "done"
    /\ req.kind = "MARKET"
    /\ req.qty = Dec(1, 3)
    /\ filters.minQty = Dec(5, 1)
    /\ calls[Len(calls)].op = "place"
    /\ calls[Len(calls)].qty = Dec(5, 1)

\* C29: once a metadata response that lists the requested symbol (BTCUSDT:
\* tick 0.5, step 0.1) has been parsed, alone or among other symbols and at
\* whatever place in the list, the tick and step the run rounds with are
\* those of the requested symbol.
C29_FiltersOfRequestedSymbol ==
    (\E i \in CallsOf("exchangeInfo") : calls[i].res = "OK") =>
        /\ filters.tickSize = Dec(5, 1)
        /\ filters.stepSize = Dec(1, 1)

====
